---------------------------- MODULE Spec2Model ----------------------------
(***************************************************************************)
(* A model of jag, the auditor that samples keys of a source S3 bucket     *)
(* with a depth model and checks them against a destination bucket.        *)
(*                                                                         *)
(* The module holds one state machine per part of the program:             *)
(*   ListSpec    listBkt, the retry wrapper around bucket.List             *)
(*   ModelSpec   buildModel, bucketModel.MarshalJSON / UnmarshalJSON       *)
(*   ConfigSpec  loadConfig                                                *)
(*   Spec        verifier.execute and everything it calls                  *)
(* A part that a specification does not run stays in its idle state.       *)
(***************************************************************************)
EXTENDS Integers, Sequences, FiniteSets, TLC

VARIABLES
    abort,   \* TRUE once the abort channel is closed (main, close(abort))
    lb,      \* one run of listBkt: its locals and the List calls it made
    bm,      \* one run of buildModel and of the model's JSON round trip
    lc,      \* one run of loadConfig
    v,       \* the verifier: its cfg, its model, its source bucket
    ex,      \* verifier.execute: where it is, the tick count, what it returned
    sk,      \* sampleKeysWithConstraint: the set, the two channels, its return
    gr,      \* the sampler goroutines of the running round, each in sampleRandomKey
    vk       \* verifyKeysMatch: the keys left, the last log entry, its return

auditVars == <<v, ex, sk, gr, vk>>

vars == <<abort, lb, bm, lc, v, ex, sk, gr, vk>>

Nil == "nil"

(***************************************************************************)
(* Small helpers over sequences.                                           *)
(***************************************************************************)
Range(s) == {s[i] : i \in 1..Len(s)}

SeqsUpTo(S, n) == UNION {[1..k -> S] : k \in 0..n}

RECURSIVE SumSeq(_)
SumSeq(s) == IF s = <<>> THEN 0 ELSE Head(s) + SumSeq(Tail(s))

SetMax(S) == CHOOSE x \in S : \A y \in S : y <= x

(***************************************************************************)
(* The abort channel is closed once, by the SIGTERM handler.               *)
(***************************************************************************)
CloseAbort == abort' = TRUE

(***************************************************************************)
(* Key paths.  A path is the sequence of its characters, so that the '/'   *)
(* characters in it can be counted as strings.Count does.                  *)
(***************************************************************************)
Slash == "/"

\* strings.Count(key, "/")
RECURSIVE CountSlash(_)
CountSlash(p) ==
    IF p = <<>> THEN 0
    ELSE (IF Head(p) = Slash THEN 1 ELSE 0) + CountSlash(Tail(p))

\* The paths a key snapshot is drawn from: "a", "b/c", "b/d/e", "/a".
SnapshotPaths ==
    { <<"a">>, <<"b", "/", "c">>, <<"b", "/", "d", "/", "e">>, <<"/", "a">> }

\* Longest key stream fed to buildModel.
MaxStream == 3

BucketNames == {"srcbkt"}

(***************************************************************************)
(* bucketModel, buildModel.                                                *)
(***************************************************************************)
\* A Go map[int]int: a function on the keys present; a missing key reads 0.
MapGet(m, k) == IF k \in DOMAIN m THEN m[k] ELSE 0
MapInc(m, k) == [x \in (DOMAIN m) \cup {k} |-> IF x = k THEN MapGet(m, k) + 1 ELSE m[x]]
EmptyMap == [x \in {} |-> 0]

ZeroModel == [name |-> "", depths |-> <<>>, keyCount |-> 0]
ZeroDoc   == [valid |-> TRUE, bucket_name |-> "", depths |-> <<>>, key_count |-> 0]
NoBack    == [panic |-> FALSE, err |-> Nil, model |-> ZeroModel]

BmIdle ==
    [pc |-> "idle", name |-> "", keys |-> <<>>, depthMap |-> EmptyMap,
     count |-> 0, maxDepth |-> 0, received |-> 0, counted |-> <<>>,
     model |-> ZeroModel, doc |-> ZeroDoc, back |-> NoBack]

\* buildModel is entered: depthMap := make(map), count := 0, maxDepth := 0.
BmEnter(name, stream) ==
    [BmIdle EXCEPT !.pc = "loop", !.name = name, !.keys = stream]

\* The loop body once the abort check has passed:
\*   count++; depth := strings.Count(key, "/"); depthMap[depth]++;
\*   if depth > maxDepth { maxDepth = depth }
BmCountKey(b, key) ==
    LET depth == CountSlash(key) IN
    [b EXCEPT !.count    = b.count + 1,
              !.depthMap = MapInc(b.depthMap, depth),
              !.maxDepth = IF depth > b.maxDepth THEN depth ELSE b.maxDepth,
              !.counted  = Append(b.counted, key)]

\* After the loop: depths := make([]int, maxDepth+1); depths[d] = count for
\* every entry of depthMap; return &bucketModel{name, depths, count}.
BmMaterialize(b) ==
    [b EXCEPT !.pc = "built",
              !.model = [name     |-> b.name,
                         depths   |-> [i \in 1..(b.maxDepth + 1) |-> MapGet(b.depthMap, i - 1)],
                         keyCount |-> b.count]]

\* buildModel with count++ moved above the select on abort.
BmOnKey_CountBeforeSelect(b, key, aborted) ==
    LET rest == [b EXCEPT !.keys = Tail(b.keys), !.received = b.received + 1] IN
    IF aborted THEN BmMaterialize([rest EXCEPT !.count = rest.count + 1])
    ELSE BmCountKey(rest, key)

\* One receive from the keys channel, then the select on abort.
BmOnKey(b, key, aborted) ==
    LET rest == [b EXCEPT !.keys = Tail(b.keys), !.received = b.received + 1] IN
    IF aborted THEN BmMaterialize(rest) ELSE BmCountKey(rest, key)

(***************************************************************************)
(* bucketModel.MarshalJSON / UnmarshalJSON.  A model document is the       *)
(* decoded JSON value: its depths are records {level, count}.              *)
(***************************************************************************)
\* MarshalJSON with Level: i + 1 in place of Level: i.
MarshalJSON_LevelOffByOne(m) ==
    [valid       |-> TRUE,
     bucket_name |-> m.name,
     depths      |-> [i \in 1..Len(m.depths) |-> [level |-> i, count |-> m.depths[i]]],
     key_count   |-> m.keyCount]

MarshalJSON(m) ==
    [valid       |-> TRUE,
     bucket_name |-> m.name,
     depths      |-> [i \in 1..Len(m.depths) |-> [level |-> i - 1, count |-> m.depths[i]]],
     key_count   |-> m.keyCount]

\* for _, depthL := range d.Depth { b.depths[depthL.Level] = depthL.Count }
\* An index outside the slice panics.
RECURSIVE StoreLevels(_, _)
StoreLevels(depths, recs) ==
    IF recs = <<>> THEN [panic |-> FALSE, depths |-> depths]
    ELSE LET r == Head(recs) IN
         IF r.level < 0 \/ r.level >= Len(depths)
         THEN [panic |-> TRUE, depths |-> depths]
         ELSE StoreLevels([depths EXCEPT ![r.level + 1] = r.count], Tail(recs))

\* json.Unmarshal leaves d zero and returns an error on a malformed document;
\* b.depths = make([]int, len(d.Depth)).
UnmarshalJSON(doc) ==
    LET d      == IF doc.valid THEN doc ELSE ZeroDoc
        err    == IF doc.valid THEN Nil ELSE "syntax error"
        stored == StoreLevels([i \in 1..Len(d.depths) |-> 0], d.depths)
    IN  IF stored.panic
        THEN [panic |-> TRUE, err |-> Nil, model |-> ZeroModel]
        ELSE [panic |-> FALSE, err |-> err,
              model |-> [name |-> d.bucket_name, depths |-> stored.depths,
                         keyCount |-> d.key_count]]

\* The model documents a model file can hold: any levels in any order.
MaxRecs  == 2
MaxLevel == 2
MaxCnt   == 2

DepthRecs == [level : 0..MaxLevel, count : 0..MaxCnt]

ModelDocs ==
    {[valid |-> TRUE, bucket_name |-> n, depths |-> ds, key_count |-> kc] :
        n \in BucketNames, ds \in SeqsUpTo(DepthRecs, MaxRecs), kc \in 0..MaxCnt}
    \cup {[ZeroDoc EXCEPT !.valid = FALSE]}

\* mustBuildModel: buildModel starts on a decoded key stream.
BmStart ==
    /\ bm.pc = "idle"
    /\ \E n \in BucketNames, stream \in SeqsUpTo(SnapshotPaths, MaxStream) :
          bm' = BmEnter(n, stream)
    /\ UNCHANGED <<abort, lb, lc, auditVars>>

\* for key := range keys { select { case <-abort: break loop; default: } ... }
BmReceive ==
    /\ bm.pc = "loop"
    /\ bm.keys # <<>>
    /\ bm' = BmOnKey(bm, Head(bm.keys), abort)
    /\ UNCHANGED <<abort, lb, lc, auditVars>>

\* The keys channel is closed and drained: the range loop ends.
BmStreamEnd ==
    /\ bm.pc = "loop"
    /\ bm.keys = <<>>
    /\ bm' = BmMaterialize(bm)
    /\ UNCHANGED <<abort, lb, lc, auditVars>>

\* mustRetrieveModel: json.Decode of a model file into a bucketModel.
BmLoad ==
    /\ bm.pc = "idle"
    /\ \E doc \in ModelDocs :
          LET r == UnmarshalJSON(doc) IN
          bm' = [bm EXCEPT !.pc    = IF r.panic THEN "panicked"
                                     ELSE IF r.err # Nil THEN "failed" ELSE "loaded",
                           !.doc   = doc,
                           !.model = r.model]
    /\ UNCHANGED <<abort, lb, lc, auditVars>>

\* printModelCommand: model.MarshalJSON().
BmMarshal ==
    /\ bm.pc \in {"built", "loaded"}
    /\ bm' = [bm EXCEPT !.pc = "marshalled", !.doc = MarshalJSON(bm.model)]
    /\ UNCHANGED <<abort, lb, lc, auditVars>>

\* The printed document is read back (mustRetrieveModel of a later run).
BmUnmarshal ==
    /\ bm.pc = "marshalled"
    /\ bm' = [bm EXCEPT !.pc = "unmarshalled", !.back = UnmarshalJSON(bm.doc)]
    /\ UNCHANGED <<abort, lb, lc, auditVars>>

BmAbort ==
    /\ ~abort
    /\ bm.pc \in {"idle", "loop"}
    /\ CloseAbort
    /\ UNCHANGED <<lb, bm, lc, auditVars>>

(***************************************************************************)
(* loadConfig.  A duration string is kept as its parts: an optional sign,  *)
(* optional digits and an optional unit; time.ParseDuration turns it into  *)
(* a number of minutes or fails.                                           *)
(***************************************************************************)
MaxDigits == 2

DurationStrings ==
    [sign : {"", "-"}, hasNum : BOOLEAN, num : 0..MaxDigits, unit : {"", "m", "h"}]

UnitMinutes(u) == IF u = "h" THEN 60 ELSE 1

\* time.ParseDuration: "" and "-" are invalid, "0" needs no unit, digits need
\* a unit, a unit needs digits.
ParseDuration(str) ==
    IF ~str.hasNum THEN [err |-> "invalid duration", d |-> 0]
    ELSE IF str.unit = "" THEN
        (IF str.num = 0 THEN [err |-> Nil, d |-> 0]
         ELSE [err |-> "missing unit in duration", d |-> 0])
    ELSE [err |-> Nil,
          d   |-> (IF str.sign = "-" THEN -1 ELSE 1) * str.num * UnitMinutes(str.unit)]

Dur(sign, num, unit) == [sign |-> sign, hasNum |-> TRUE, num |-> num, unit |-> unit]

RandomSeeds  == {0, 7}
CheckCounts  == {-1, 0, 2}
Frequencies  == {Dur("", 1, "m"), [sign |-> "", hasNum |-> FALSE, num |-> 0, unit |-> ""]}

ConfigDocs ==
    [valid : BOOLEAN, random_seed : RandomSeeds, check_count : CheckCounts,
     check_youngest : DurationStrings, check_oldest : DurationStrings,
     check_frequency : Frequencies]

ZeroConfig ==
    [RandomSeed |-> 0, CheckCount |-> 0, CheckYoungest |-> 0, CheckOldest |-> 0,
     CheckFrequency |-> 0]

LcFail(e) == [ok |-> FALSE, err |-> e, cfg |-> ZeroConfig]

\* json Decode into the struct d: malformed JSON, or a negative number for the
\* uint check_count, is an error.
DecodeConfig(doc) ==
    IF ~doc.valid THEN "syntax error"
    ELSE IF doc.check_count < 0 THEN "cannot unmarshal number into uint"
    ELSE Nil

loadConfig(doc) ==
    LET young == ParseDuration(doc.check_youngest)
        old   == ParseDuration(doc.check_oldest)
        freq  == ParseDuration(doc.check_frequency)
    IN  IF DecodeConfig(doc) # Nil THEN LcFail(DecodeConfig(doc))
        ELSE IF young.err # Nil THEN LcFail(young.err)
        ELSE IF old.err # Nil THEN LcFail(old.err)
        ELSE IF old.d <= young.d
             THEN LcFail("cannot look for events where oldest is less or equal to youngest")
        ELSE IF freq.err # Nil THEN LcFail(freq.err)
        ELSE [ok |-> TRUE, err |-> Nil,
              cfg |-> [RandomSeed     |-> 0,
                       CheckCount     |-> doc.check_count,
                       CheckYoungest  |-> young.d,
                       CheckOldest    |-> old.d,
                       CheckFrequency |-> freq.d]]

NoConfigDoc ==
    [valid |-> FALSE, random_seed |-> 0, check_count |-> 0,
     check_youngest |-> Dur("", 0, ""), check_oldest |-> Dur("", 0, ""),
     check_frequency |-> Dur("", 0, "")]

LcIdle == [pc |-> "idle", doc |-> NoConfigDoc, res |-> LcFail(Nil)]

\* mustConfig: loadConfig(file).
LcLoad ==
    /\ lc.pc = "idle"
    /\ \E doc \in ConfigDocs :
          LET r == loadConfig(doc) IN
          lc' = [pc |-> IF r.ok THEN "loaded" ELSE "failed", doc |-> doc, res |-> r]
    /\ UNCHANGED <<abort, lb, bm, auditVars>>

(***************************************************************************)
(* Keys and buckets.  A bucket is the sequence of its keys in the order S3 *)
(* lists them; List with delimiter "/" answers the keys right under the    *)
(* prefix and the sub-prefixes one level down.                             *)
(***************************************************************************)
\* A LastModified string: one time.Parse reads as the minute t, or one it
\* cannot read.
TimeStr(t) == [rfc3339 |-> TRUE, t |-> t]
BadTimeStr == [rfc3339 |-> FALSE, t |-> 0]

\* time.Parse(time.RFC3339Nano, s)
ParseTime(str) ==
    IF str.rfc3339 THEN [err |-> Nil, t |-> str.t] ELSE [err |-> "parsing time", t |-> 0]

S3Key(path, lastModified) ==
    [Key |-> path, LastModified |-> lastModified, ETag |-> "E1", Size |-> 10]

HasPrefix(p, pre) == Len(p) >= Len(pre) /\ SubSeq(p, 1, Len(pre)) = pre

\* Index of the first "/" of s, 0 when it has none.
FirstSlash(s) ==
    IF \E i \in 1..Len(s) : s[i] = Slash
    THEN CHOOSE i \in 1..Len(s) : s[i] = Slash /\ \A j \in 1..(i - 1) : s[j] # Slash
    ELSE 0

RECURSIVE Dedup(_)
Dedup(s) ==
    IF s = <<>> THEN <<>>
    ELSE LET d == Dedup(SubSeq(s, 1, Len(s) - 1)) IN
         IF s[Len(s)] \in Range(d) THEN d ELSE Append(d, s[Len(s)])

RECURSIVE MapPrefixes(_, _)
MapPrefixes(keys, prefix) ==
    IF keys = <<>> THEN <<>>
    ELSE LET rest == SubSeq(Head(keys).Key, Len(prefix) + 1, Len(Head(keys).Key)) IN
         <<prefix \o SubSeq(rest, 1, FirstSlash(rest))>> \o MapPrefixes(Tail(keys), prefix)

\* bkt.List(prefix, "/", "", limit) when it succeeds.
ListBucket(bkt, prefix) ==
    LET under(k)  == HasPrefix(k.Key, prefix)
        suffix(k) == SubSeq(k.Key, Len(prefix) + 1, Len(k.Key))
        leaf(k)   == under(k) /\ FirstSlash(suffix(k)) = 0
        inner(k)  == under(k) /\ FirstSlash(suffix(k)) # 0
    IN  [Contents       |-> SelectSeq(bkt, leaf),
         CommonPrefixes |-> Dedup(MapPrefixes(SelectSeq(bkt, inner), prefix))]

\* The source buckets audited: one with the keys "a", "b/c", "b/d" and
\* "z", of which "z" is too old at the first audit, one with the single key
\* "a", one with no key, and BktDeep below.
BktTree ==
    << S3Key(<<"a">>, TimeStr(50)),
       S3Key(<<"b", "/", "c">>, TimeStr(50)),
       S3Key(<<"b", "/", "d">>, TimeStr(50)),
       S3Key(<<"z">>, TimeStr(40)) >>
BktOne   == << S3Key(<<"a">>, TimeStr(50)) >>
BktEmpty == <<>>

\* A bucket with the keys "z", "b/c" and "y/z": "z" is too old, the time of
\* "y/z" does not parse, and "b/c" is in the window of the first audit only.
BktDeep ==
    << S3Key(<<"z">>, TimeStr(40)),
       S3Key(<<"b", "/", "c">>, TimeStr(41)),
       S3Key(<<"y", "/", "z">>, BadTimeStr) >>

\* A bucket with a key that begins with the delimiter, "/a", and the key "b".
BktSlash == << S3Key(<<"/", "a">>, TimeStr(50)), S3Key(<<"b">>, TimeStr(50)) >>

SourceBuckets == {BktTree, BktOne, BktEmpty, BktDeep, BktSlash}

\* The bucket models audits run with: P(0) = P(1) = 1/2; P(0) = 0, P(1) = 1;
\* P(0) = 1 and no deeper level.
AuditModels ==
    { [name |-> "srcbkt", depths |-> <<1, 1>>, keyCount |-> 2],
      [name |-> "srcbkt", depths |-> <<0, 1>>, keyCount |-> 1],
      [name |-> "srcbkt", depths |-> <<1>>, keyCount |-> 1] }

(***************************************************************************)
(* The verifier's pure parts.                                              *)
(***************************************************************************)
\* verifySamples's constraint closure for the audit that started at `now`.
constraint(k, now, cfg) ==
    LET oldest   == now - cfg.CheckOldest
        youngest == now - cfg.CheckYoungest
        modtime  == ParseTime(k.LastModified)
    IN  IF modtime.err # Nil THEN FALSE
        ELSE IF ~(modtime.t > oldest) THEN FALSE
        ELSE IF ~(modtime.t < youngest) THEN FALSE
        ELSE TRUE

normalizePath(p) == IF p # <<>> /\ Head(p) = Slash THEN Tail(p) ELSE p

\* A closure `accept` is the values it captured: now and the configuration.
Call(accept, k) == constraint(k, accept.now, accept.cfg)

\* filterKeys without its `if accept(k)`: every candidate is kept.
filterKeys_KeepAll(candidates, accept) == candidates

filterKeys(candidates, accept) ==
    SelectSeq(candidates, LAMBDA k : Call(accept, k))

\* The values r.Intn(i + 1) can draw for each i of a shuffle of n elements.
ShuffleDraws(n) == {js \in [1..n -> 1..n] : \A i \in 1..n : js[i] <= i}

\* shuffle / shuffleKeys: for i := range arr { j := r.Intn(i+1); swap i, j }.
RECURSIVE shuffleFrom(_, _, _)
shuffleFrom(arr, js, i) ==
    IF i > Len(arr) THEN arr
    ELSE shuffleFrom([arr EXCEPT ![i] = arr[js[i]], ![js[i]] = arr[i]], js, i + 1)

shuffle(arr, js) == shuffleFrom(arr, js, 1)

\* r.Float64() draws dice / DiceDen, dice in 0..DiceDen-1.
DiceDen == 3
Dice == 0..(DiceDen - 1)

\* probThatKeyAtDepth reading the count of the next level.
probThatKeyAtDepth_NextLevel(model, depth) ==
    IF depth + 1 >= Len(model.depths) THEN [num |-> 0, den |-> 1]
    ELSE [num |-> model.depths[depth + 2], den |-> model.keyCount]

\* probThatKeyAtDepth, as the fraction num/den.
probThatKeyAtDepth(model, depth) ==
    IF depth >= Len(model.depths) THEN [num |-> 0, den |-> 1]
    ELSE [num |-> model.depths[depth + 1], den |-> model.keyCount]

\* maybePickKey: accepted := dice <= p.  A zero keyCount makes p +Inf, or NaN
\* when the count is zero too.
maybePickKey(model, depth, dice) ==
    LET p == probThatKeyAtDepth(model, depth) IN
    IF p.den = 0 THEN p.num > 0
    ELSE dice * p.den <= p.num * DiceDen

\* for _, key := range candidates { if maybePickKey(depth, key) { return } }:
\* the index of the candidate picked, 0 when all are rejected.
PickIndex(model, depth, n, dices) ==
    IF \E i \in 1..n : maybePickKey(model, depth, dices[i])
    THEN CHOOSE i \in 1..n :
            /\ maybePickKey(model, depth, dices[i])
            /\ \A j \in 1..(i - 1) : ~maybePickKey(model, depth, dices[j])
    ELSE 0

(***************************************************************************)
(* listBkt (retry wrapper).                                                *)
(***************************************************************************)
\* RetryLimit, the const of the verifier.
RetryLimit == 10

\* What one underlying bkt.List call can answer: a response and no error, or
\* no response and an error.
ListResps == {"resp1", "resp2"}
ListErrs  == {"err1", "err2"}
ListOutcomes ==
    {[resp |-> r, err |-> Nil] : r \in ListResps} \cup
    {[resp |-> Nil, err |-> e] : e \in ListErrs}

\* `late` counts the List calls of the running listBkt call that were issued
\* with abort already closed.
LbIdle ==
    [pc |-> "idle", i |-> 0, resp |-> Nil, err |-> Nil, hist |-> <<>>, late |-> 0]

\* listBkt is entered: var resp, err; i := 0.
LbEnter ==
    [pc |-> "loop", i |-> 0, resp |-> Nil, err |-> Nil, hist |-> <<>>, late |-> 0]

\* One pass of the loop body with the List call answering `o`:
\*   resp, err = bkt.List(...); if err != nil { return resp, err }
LbBody(l, o) ==
    [l EXCEPT !.resp = o.resp,
              !.err  = o.err,
              !.hist = Append(l.hist, o),
              !.i    = IF o.err # Nil THEN l.i ELSE l.i + 1,
              !.pc   = IF o.err # Nil THEN "returned" ELSE "loop"]

\* The loop condition i < RetryLimit fails: return resp, err.
LbExit(l) == [l EXCEPT !.pc = "returned"]

\* A whole listBkt call against the answers `os` the bucket gives to its
\* successive List calls: the loop runs until a call fails or RetryLimit calls
\* are made, and returns what the last call made answered.
listBkt(os) ==
    LET failed == {k \in 1..RetryLimit : os[k].err # Nil}
        calls  == IF failed = {} THEN RetryLimit
                  ELSE CHOOSE k \in failed : \A j \in failed : k <= j
    IN  [pc   |-> "returned",
         i    |-> IF failed = {} THEN RetryLimit ELSE calls - 1,
         resp |-> os[calls].resp,
         err  |-> os[calls].err,
         hist |-> SubSeq(os, 1, calls)]

\* walkNode calls listBkt right after its select found abort open.
LbCall ==
    /\ lb.pc \in {"idle", "returned"}
    /\ ~abort
    /\ lb' = LbEnter
    /\ UNCHANGED <<abort, bm, lc, auditVars>>

LbAttempt ==
    /\ lb.pc = "loop"
    /\ lb.i < RetryLimit
    /\ \E o \in ListOutcomes :
          lb' = [LbBody(lb, o) EXCEPT !.late = lb.late + (IF abort THEN 1 ELSE 0)]
    /\ UNCHANGED <<abort, bm, lc, auditVars>>

\* SIGTERM while listBkt runs.
LbAbort ==
    /\ ~abort
    /\ lb.pc = "loop"
    /\ CloseAbort
    /\ UNCHANGED <<lb, bm, lc, auditVars>>

LbReturn ==
    /\ lb.pc = "loop"
    /\ lb.i >= RetryLimit
    /\ lb' = LbExit(lb)
    /\ UNCHANGED <<abort, bm, lc, auditVars>>


(***************************************************************************)
(* The audit: execute, verifySamples, sampleKeysWithConstraint,            *)
(* sampleRandomKey and its walkNode, verifyKeysMatch, verifyKey.           *)
(***************************************************************************)
\* Most keys sampled per audit (cfg.CheckCount) and most ticks of the ticker.
MaxCheckCount == 2
MaxTicks == 1
\* Deepest walkNode call followed.
MaxDepth == 3

\* The config documents of the audits: a window from one hour to one minute
\* ago, checked every minute.
AuditDocs ==
    {[valid |-> TRUE, random_seed |-> 7, check_count |-> n,
      check_youngest |-> Dur("", 1, "m"), check_oldest |-> Dur("", 1, "h"),
      check_frequency |-> Dur("", 1, "m")] : n \in 0..MaxCheckCount}

\* The answers a bucket gives to the successive List calls of one listBkt
\* call: `resp` each time, but an error at call failAt (never, when 0).
Answers(resp, failAt) ==
    [k \in 1..RetryLimit |->
        IF k = failAt THEN [resp |-> Nil, err |-> "err1"] ELSE [resp |-> resp, err |-> Nil]]

\* The List call of one listBkt call that fails: none, the first, the last.
FailPoints == {0, 1, RetryLimit}

NoKey == S3Key(<<>>, BadTimeStr)

NoKeySelected == "traversed whole bucket without choosing a key"

\* sampleRandomKey(r, accept) is entered and calls walkNode(0, "/"); `rng`
\* names the rand.Rand it was given, the one execute made, `listed` the
\* prefixes it listed, `calls` the List calls it made on the source and
\* abortAtEntry whether walkNode(0, "/") was entered with abort closed,
\* pickedAt the depth of the walkNode call that picked the key.
GrStart ==
    [pc |-> "walk", agenda |-> << [depth |-> 0, prefix |-> <<Slash>>] >>,
     found |-> FALSE, key |-> NoKey, err |-> Nil,
     sawAbort |-> FALSE, listFailed |-> FALSE, listed |-> <<>>,
     rng |-> "r", calls |-> 0, abortAtEntry |-> FALSE, pickedAt |-> -1]

\* The goroutine has returned; its locals are gone.
GrDone == [GrStart EXCEPT !.pc = "done", !.agenda = <<>>]

\* walkNode past its select on abort, for the call at the head of the agenda
\* (the calls the recursion has still to make, innermost loop first):
\* listBkt, filterKeys, shuffleKeys, maybePickKey, shuffle, and the calls for
\* the sub-prefixes.  `answers` are the source bucket's answers, js1 and js2
\* the draws of the two shuffles, dices the draws of maybePickKey.
walkListed(g, answers, accept, model, js1, dices, js2) ==
    LET call == Head(g.agenda)
        rest == Tail(g.agenda)
        l    == listBkt(answers)
        h    == [g EXCEPT !.listed = Append(g.listed, normalizePath(call.prefix)),
                          !.calls  = g.calls + Len(l.hist)]
    IN  IF l.err # Nil
        THEN [h EXCEPT !.agenda = <<>>, !.err = l.err, !.listFailed = TRUE]
        ELSE LET candidates == shuffle(filterKeys(l.resp.Contents, accept), js1)
                 picked     == PickIndex(model, call.depth, Len(candidates), dices)
                 children   == shuffle(l.resp.CommonPrefixes, js2)
             IN  IF picked # 0
                 THEN [h EXCEPT !.agenda = <<>>, !.found = TRUE, !.key = candidates[picked],
                                !.pickedAt = call.depth]
                 ELSE [h EXCEPT !.agenda =
                                   [i \in 1..Len(children) |->
                                       [depth |-> call.depth + 1, prefix |-> children[i]]]
                                   \o rest]

\* walkNode without its select on abort.
walkNode_NoAbortPoll(g, aborted, answers, accept, model, js1, dices, js2) ==
    walkListed(g, answers, accept, model, js1, dices, js2)

\* One entry of walkNode: on abort, return nil, false, nil.
walkNode(g, aborted, answers, accept, model, js1, dices, js2) ==
    IF aborted
    THEN [g EXCEPT !.agenda = Tail(g.agenda), !.sawAbort = TRUE]
    ELSE walkListed(g, answers, accept, model, js1, dices, js2)

\* sampleRandomKey returning a nil error when no key was found.
sampleRandomKeyReturn_NotFoundIsNil(g) ==
    [g EXCEPT !.pc = "send", !.err = g.err]

\* walkNode(0, "/") has returned: k, found, err.
sampleRandomKeyReturn(g) ==
    [g EXCEPT !.pc  = "send",
              !.err = IF g.err # Nil THEN g.err
                      ELSE IF ~g.found THEN NoKeySelected ELSE Nil]

\* The loop condition as len(set) < count in place of len(set) != count.
SkLoopEnds_LessThan(set, count) == ~(Cardinality(set) < count)

\* The loop condition of sampleKeysWithConstraint, len(set) != count, fails.
SkLoopEnds(set, count) == ~(Cardinality(set) # count)

\* Unbuffered channels in place of make(chan ..., count).
ChanCap_Unbuffered(count) == 0

\* The capacity of sampleC and of errC: make(chan s3.Key, count),
\* make(chan error, count).
ChanCap(count) == count

SkIdle ==
    [pc |-> "off", set |-> {}, sampleC |-> <<>>, errC |-> <<>>, keys |-> <<>>,
     err |-> Nil, sawAbort |-> FALSE, produced |-> {}, spawned |-> FALSE,
     rearmed |-> FALSE]

\* No verifyKey call has returned yet.
NoCheck == [want |-> NoKey, res |-> <<>>, listErr |-> Nil]

\* `last` records the arguments and the listing of the latest verifyKey call.
VkIdle ==
    [pc |-> "off", todo |-> <<>>, log |-> <<>>, err |-> Nil, sawAbort |-> FALSE,
     last |-> NoCheck]

\* The orders a range over the map `set` can give.
Orders(set) ==
    {o \in [1..Cardinality(set) -> set] : \A i, j \in 1..Cardinality(set) : o[i] = o[j] => i = j}

MsgMissing   == "mismatch at key, no match in destination"
MsgAmbiguous == "mismatch at key, more than one match in destination"
MsgDifferent == "mismatch at key, different properties"

\* verifyKey's logFields with only the etag compared.
logFields_ETagOnly(want, got) ==
    IF want.ETag # got.ETag
    THEN {<<"want.etag", want.ETag>>, <<"got.etag", got.ETag>>} ELSE {}

\* verifyKey: the log fields collected from the comparison of want and got.
logFields(want, got) ==
    (IF want.ETag # got.ETag
     THEN {<<"want.etag", want.ETag>>, <<"got.etag", got.ETag>>} ELSE {})
    \cup
    (IF want.Size # got.Size
     THEN {<<"want.size", want.Size>>, <<"got.size", got.Size>>} ELSE {})

\* verifyKey returning an error when the destination has no match.
verifyKey_MissingIsFatal(want, answers) ==
    LET l == listBkt(answers) IN
    IF l.err # Nil THEN [err |-> l.err, log |-> <<>>]
    ELSE IF Len(l.resp.Contents) = 0
    THEN [err |-> MsgMissing,
          log |-> << [msg |-> MsgMissing, fields |-> {<<"key", want.Key>>}] >>]
    ELSE IF Len(l.resp.Contents) > 1
    THEN [err |-> Nil,
          log |-> << [msg |-> MsgAmbiguous, fields |-> {<<"key", want.Key>>}] >>]
    ELSE LET fields == logFields(want, l.resp.Contents[1])
         IN  [err |-> Nil,
              log |-> IF fields # {}
                      THEN << [msg |-> MsgDifferent,
                               fields |-> fields \cup {<<"key", want.Key>>}] >>
                      ELSE <<>>]

\* verifyKey once the destination listing has answered: its error and the
\* entries it logged at error level.
verifyKey(want, answers) ==
    LET l == listBkt(answers) IN
    IF l.err # Nil THEN [err |-> l.err, log |-> <<>>]
    ELSE IF Len(l.resp.Contents) = 0
    THEN [err |-> Nil,
          log |-> << [msg |-> MsgMissing, fields |-> {<<"key", want.Key>>}] >>]
    ELSE IF Len(l.resp.Contents) > 1
    THEN [err |-> Nil,
          log |-> << [msg |-> MsgAmbiguous, fields |-> {<<"key", want.Key>>}] >>]
    ELSE LET fields == logFields(want, l.resp.Contents[1])
         IN  [err |-> Nil,
              log |-> IF fields # {}
                      THEN << [msg |-> MsgDifferent,
                               fields |-> fields \cup {<<"key", want.Key>>}] >>
                      ELSE <<>>]

\* What the destination bucket can hold under a wanted key.
DstContents(want) ==
    LET gots == {[want EXCEPT !.ETag = e, !.Size = z] : e \in {"E1", "E2"}, z \in {10, 11}} IN
    {<<>>} \cup {<<g>> : g \in gots} \cup {<<want, g>> : g \in gots}

ExIdle ==
    [pc |-> "off", ticks |-> 0, now |-> 0, ret |-> Nil, sawAbort |-> FALSE,
     listFailed |-> FALSE]

VIdle ==
    [cfg |-> ZeroConfig, model |-> ZeroModel, src |-> BktEmpty]

AuditIdle ==
    /\ v = VIdle
    /\ ex = ExIdle
    /\ sk = SkIdle
    /\ gr = <<>>
    /\ vk = VkIdle

\* The audit of the current iteration started at minute ex.now.
acceptClosure == [now |-> ex.now, cfg |-> v.cfg]
accepts(k) == Call(acceptClosure, k)

\* execute: top of the for loop; now := time.Now(); verifySamples(r, now)
\* enters sampleKeysWithConstraint.
ExAudit ==
    /\ ex.pc = "audit"
    /\ ex' = [ex EXCEPT !.pc = "sampling", !.now = 100 + ex.ticks * v.cfg.CheckFrequency]
    /\ sk' = [SkIdle EXCEPT !.pc = "loop"]
    /\ UNCHANGED <<abort, lb, bm, lc, v, gr, vk>>

\* sampleKeysWithConstraint: the loop condition, the select on abort, then
\* the spawn of count goroutines.
SkLoop ==
    /\ ex.pc = "sampling"
    /\ sk.pc = "loop"
    /\ IF SkLoopEnds(sk.set, v.cfg.CheckCount)
       THEN /\ \E o \in Orders(sk.set) : sk' = [sk EXCEPT !.pc = "returned", !.keys = o]
            /\ UNCHANGED <<ex, gr>>
       ELSE IF abort
       THEN /\ sk' = [sk EXCEPT !.pc = "returned", !.keys = <<>>, !.sawAbort = TRUE]
            /\ ex' = [ex EXCEPT !.sawAbort = TRUE]
            /\ UNCHANGED gr
       ELSE /\ sk' = [sk EXCEPT !.pc = "wait", !.sampleC = <<>>, !.errC = <<>>,
                               !.spawned = TRUE, !.rearmed = sk.spawned]
            /\ gr' = [i \in 1..v.cfg.CheckCount |-> GrStart]
            /\ UNCHANGED ex
    /\ UNCHANGED <<abort, lb, bm, lc, v, vk>>

\* One goroutine enters walkNode: the select on abort and the listing.  With
\* keys or prefixes listed it goes on to draw from the rng; otherwise
\* walkNode returns, and when the outermost walkNode has returned,
\* sampleRandomKey returns.
GrWalk(i) ==
    /\ gr[i].pc = "walk"
    /\ Head(gr[i].agenda).depth <= MaxDepth
    /\ \E resp \in {ListBucket(v.src, normalizePath(Head(gr[i].agenda).prefix))} :
       \E n \in {Len(filterKeys(resp.Contents, acceptClosure))}, m \in {Len(resp.CommonPrefixes)} :
       \* no List call is made once abort is seen
       \E failAt \in IF abort THEN {0} ELSE FailPoints :
          IF ~abort /\ failAt = 0 /\ (n >= 1 \/ m >= 1)
          THEN /\ gr' = [gr EXCEPT ![i].pc = "rng"]
               /\ UNCHANGED ex
          ELSE \E w \in {walkNode(gr[i], abort, Answers(resp, failAt), acceptClosure,
                                  v.model, [j \in 1..n |-> j], [j \in 1..n |-> 0],
                                  [j \in 1..m |-> j])} :
               \* abort was closed when walkNode(0, "/") was entered
               \E g \in {[w EXCEPT !.abortAtEntry =
                                       abort /\ Head(gr[i].agenda).depth = 0]} :
               /\ gr' = [gr EXCEPT ![i] = IF g.agenda = <<>>
                                          THEN sampleRandomKeyReturn(g) ELSE g]
               /\ ex' = [ex EXCEPT !.sawAbort = ex.sawAbort \/ g.sawAbort,
                                   !.listFailed = ex.listFailed \/ g.listFailed]
    /\ UNCHANGED <<abort, lb, bm, lc, v, sk, vk>>

\* The rest of that walkNode call: shuffleKeys, maybePickKey on each
\* candidate, shuffle of the prefixes, every draw made on the goroutine's rng.
GrDraw(i) ==
    /\ gr[i].pc = "rng"
    /\ \E resp \in {ListBucket(v.src, normalizePath(Head(gr[i].agenda).prefix))} :
       \E n \in {Len(filterKeys(resp.Contents, acceptClosure))}, m \in {Len(resp.CommonPrefixes)} :
       \E js1 \in ShuffleDraws(n), dices \in [1..n -> Dice], js2 \in ShuffleDraws(m) :
       \E g \in {walkNode(gr[i], FALSE, Answers(resp, 0), acceptClosure,
                          v.model, js1, dices, js2)} :
          gr' = [gr EXCEPT ![i] = IF g.agenda = <<>>
                                  THEN sampleRandomKeyReturn(g)
                                  ELSE [g EXCEPT !.pc = "walk"]]
    /\ UNCHANGED <<abort, lb, bm, lc, v, ex, sk, vk>>

\* Two goroutines draw from one rand.Rand at once.  The source behind it is
\* not locked: besides any value a draw can give (GrDraw), the unsynchronized
\* updates of its indices can leave one out of range, and the process panics.
GrRacePanic(i) ==
    /\ gr[i].pc = "rng"
    /\ \E j \in DOMAIN gr : j # i /\ gr[j].pc = "rng" /\ gr[j].rng = gr[i].rng
    /\ ex' = [ex EXCEPT !.pc = "panicked"]
    /\ gr' = <<>>
    /\ sk' = SkIdle
    /\ UNCHANGED <<abort, lb, bm, lc, v, vk>>

\* The goroutine sends what sampleRandomKey returned and is done (wg.Done).
GrSend(i) ==
    /\ gr[i].pc = "send"
    \* a send on a full channel blocks
    /\ Len(IF gr[i].err # Nil THEN sk.errC ELSE sk.sampleC) < ChanCap(v.cfg.CheckCount)
    /\ gr' = [gr EXCEPT ![i] = GrDone]
    /\ sk' = IF gr[i].err # Nil
             THEN [sk EXCEPT !.errC = Append(sk.errC, gr[i].err)]
             ELSE [sk EXCEPT !.sampleC = Append(sk.sampleC, gr[i].key),
                             !.produced = sk.produced \cup {gr[i].key}]
    /\ UNCHANGED <<abort, lb, bm, lc, v, ex, vk>>

\* wg.Wait() returns: close both channels, drain sampleC into the set,
\* receive once from errC.
SkCollect ==
    /\ sk.pc = "wait"
    /\ \A i \in DOMAIN gr : gr[i].pc = "done"
    /\ sk' = [sk EXCEPT !.set = sk.set \cup Range(sk.sampleC),
                        !.pc  = IF sk.errC # <<>> THEN "returned" ELSE "loop",
                        !.err = IF sk.errC # <<>> THEN Head(sk.errC) ELSE Nil]
    /\ gr' = <<>>
    /\ UNCHANGED <<abort, lb, bm, lc, v, ex, vk>>

\* verifySamples once sampleKeysWithConstraint has returned: return its
\* error, or enter verifyKeysMatch(keys).
VsSampled ==
    /\ ex.pc = "sampling"
    /\ sk.pc = "returned"
    /\ IF sk.err # Nil
       THEN /\ ex' = [ex EXCEPT !.pc = "returned", !.ret = sk.err]
            /\ UNCHANGED vk
       ELSE /\ ex' = [ex EXCEPT !.pc = "verifying"]
            /\ vk' = [VkIdle EXCEPT !.pc = "loop", !.todo = sk.keys]
    /\ sk' = SkIdle
    /\ UNCHANGED <<abort, lb, bm, lc, v, gr>>

\* verifyKeysMatch: one pass of its loop (the select on abort, verifyKey).
VkNext ==
    /\ ex.pc = "verifying"
    /\ vk.pc = "loop"
    /\ IF vk.todo = <<>>
       THEN /\ vk' = [vk EXCEPT !.pc = "returned"]
            /\ UNCHANGED ex
       ELSE IF abort
       THEN /\ vk' = [vk EXCEPT !.pc = "returned", !.sawAbort = TRUE]
            /\ ex' = [ex EXCEPT !.sawAbort = TRUE]
       ELSE \E failAt \in FailPoints, contents \in DstContents(Head(vk.todo)) :
            \E answers \in {Answers([Contents |-> contents, CommonPrefixes |-> <<>>],
                                    failAt)} :
            \E r \in {verifyKey(Head(vk.todo), answers)} :
               /\ vk' = [vk EXCEPT !.pc   = IF r.err # Nil THEN "returned" ELSE "loop",
                                   !.err  = r.err,
                                   !.log  = r.log,
                                   !.todo = Tail(vk.todo),
                                   !.last = [want    |-> Head(vk.todo),
                                             res     |-> contents,
                                             listErr |-> listBkt(answers).err]]
               /\ ex' = [ex EXCEPT !.listFailed = ex.listFailed \/ r.err # Nil]
    /\ UNCHANGED <<abort, lb, bm, lc, v, sk, gr>>

\* verifySamples once verifyKeysMatch has returned, then execute: return the
\* error, or go to the select.
VsVerified ==
    /\ ex.pc = "verifying"
    /\ vk.pc = "returned"
    /\ ex' = IF vk.err # Nil THEN [ex EXCEPT !.pc = "returned", !.ret = vk.err]
             ELSE [ex EXCEPT !.pc = "select"]
    /\ vk' = VkIdle
    /\ UNCHANGED <<abort, lb, bm, lc, v, sk, gr>>

\* execute's select: case <-v.abort: return nil.
ExSelectAbort ==
    /\ ex.pc = "select"
    /\ abort
    /\ ex' = [ex EXCEPT !.pc = "returned", !.ret = Nil, !.sawAbort = TRUE]
    /\ UNCHANGED <<abort, lb, bm, lc, v, sk, gr, vk>>

\* execute's select: case <-tick.C.
ExSelectTick ==
    /\ ex.pc = "select"
    /\ ex.ticks < MaxTicks
    /\ ex' = [ex EXCEPT !.pc = "audit", !.ticks = ex.ticks + 1]
    /\ UNCHANGED <<abort, lb, bm, lc, v, sk, gr, vk>>

\* SIGTERM while execute runs.
Abort ==
    /\ ~abort
    /\ ex.pc \notin {"off", "returned", "panicked"}
    /\ CloseAbort
    /\ UNCHANGED <<lb, bm, lc, v, ex, sk, gr, vk>>

\* doAudit: newVerifier(cfg, *model, abort) with a loaded config, then
\* v.execute().
AuditInit ==
    /\ abort = FALSE
    /\ lb = LbIdle
    /\ bm = BmIdle
    /\ lc = LcIdle
    /\ \E doc \in AuditDocs, model \in AuditModels, src \in SourceBuckets :
          v = [cfg |-> loadConfig(doc).cfg, model |-> model, src |-> src]
    /\ ex = [ExIdle EXCEPT !.pc = "audit"]
    /\ sk = SkIdle
    /\ gr = <<>>
    /\ vk = VkIdle

Step ==
    \/ ExAudit \/ SkLoop \/ SkCollect \/ VsSampled \/ VkNext \/ VsVerified
    \/ ExSelectAbort \/ ExSelectTick
    \/ \E i \in DOMAIN gr : GrWalk(i)
    \/ \E i \in DOMAIN gr : GrDraw(i)
    \/ \E i \in DOMAIN gr : GrRacePanic(i)
    \/ \E i \in DOMAIN gr : GrSend(i)

Next == Step \/ Abort

Spec == AuditInit /\ [][Next]_vars

\* The goroutines and the ticker are scheduled; SIGTERM may never come.
FairSpec == Spec /\ WF_vars(Step)

ListInit ==
    /\ abort = FALSE
    /\ lb = LbIdle
    /\ bm = BmIdle
    /\ lc = LcIdle
    /\ AuditIdle

ListNext == LbCall \/ LbAttempt \/ LbReturn \/ LbAbort

ListSpec == ListInit /\ [][ListNext]_vars

ModelInit ==
    /\ abort = FALSE
    /\ lb = LbIdle
    /\ bm = BmIdle
    /\ lc = LcIdle
    /\ AuditIdle

ModelNext ==
    \/ BmStart \/ BmReceive \/ BmStreamEnd \/ BmAbort
    \/ BmLoad \/ BmMarshal \/ BmUnmarshal

ModelSpec == ModelInit /\ [][ModelNext]_vars

ConfigInit ==
    /\ abort = FALSE
    /\ lb = LbIdle
    /\ bm = BmIdle
    /\ lc = LcIdle
    /\ AuditIdle

ConfigNext == LcLoad

ConfigSpec == ConfigInit /\ [][ConfigNext]_vars

\* The stepped loop and listBkt agree: a returned run is listBkt of the
\* answers it got (the answers never asked for do not matter).
LbStepsAgree ==
    lb.pc = "returned" =>
        [f \in {"pc", "i", "resp", "err", "hist"} |-> lb[f]] =
           listBkt([k \in 1..RetryLimit |->
                        IF k <= Len(lb.hist) THEN lb.hist[k] ELSE lb.hist[Len(lb.hist)]])

\* C3: listBkt returns an error only after RetryLimit failed attempts, and the
\* error is the one of the last attempt.
C3_RetriesOnFailure ==
    (lb.pc = "returned" /\ lb.err # Nil) =>
        /\ Len(lb.hist) = RetryLimit
        /\ \A k \in 1..Len(lb.hist) : lb.hist[k].err # Nil
        /\ lb.err = lb.hist[Len(lb.hist)].err

\* C4: once a List call of one listBkt call has answered without error, no
\* further List call is made, and that response is the one returned.
C4_FirstSuccessShortCircuits ==
    /\ \A k \in 1..(Len(lb.hist) - 1) : lb.hist[k].err # Nil
    /\ (lb.pc = "returned" /\ lb.err = Nil) =>
          /\ Len(lb.hist) >= 1
          /\ lb.resp = lb.hist[Len(lb.hist)].resp

\* The model buildModel returned agrees with the keys it counted.
ModelAgrees(m, S) ==
    /\ m.keyCount = Len(S)
    /\ SumSeq(m.depths) = m.keyCount
    /\ Len(m.depths) = SetMax({0} \cup {CountSlash(S[i]) : i \in 1..Len(S)}) + 1
    /\ \A d \in 1..Len(m.depths) :
          m.depths[d] = Cardinality({i \in 1..Len(S) : CountSlash(S[i]) = d - 1})

\* C7: the model buildModel returns counts exactly the keys that passed the
\* abort check: key_count is their number, depths sums to it, has an entry for
\* every level up to the deepest of them and holds the per-level counts, also
\* when abort cut the stream short.
C7_BuiltModelCountsConsumedKeys ==
    bm.pc = "built" => ModelAgrees(bm.model, bm.counted)

\* C7 witness: abort interrupted a build that had counted keys at levels 0
\* and 2 and none at level 1; the key received at the interruption is not
\* counted.
C7_Witness ==
    /\ bm.pc = "built"
    /\ abort
    /\ bm.received > Len(bm.counted)
    /\ bm.model.depths = <<1, 0, 1>>

\* C8: reading back the document MarshalJSON wrote gives the same name, the
\* same key_count and the same depths, entry by entry.
C8_ModelRoundTrip ==
    bm.pc = "unmarshalled" =>
        /\ ~bm.back.panic
        /\ bm.back.err = Nil
        /\ bm.back.model.keyCount = bm.model.keyCount
        /\ Len(bm.back.model.depths) = Len(bm.model.depths)
        /\ \A i \in 1..Len(bm.model.depths) :
              bm.back.model.depths[i] = bm.model.depths[i]
        /\ bm.back.model.name = bm.model.name

\* C8 witness: a round trip of a model with several levels whose key_count is
\* not the sum of its depths.
C8_Witness ==
    /\ bm.pc = "unmarshalled"
    /\ Len(bm.model.depths) >= 2
    /\ bm.model.keyCount # SumSeq(bm.model.depths)
    /\ bm.model.depths[2] > 0

DocLevels(doc) == {doc.depths[i].level : i \in 1..Len(doc.depths)}

\* C9: a model document whose records carry distinct levels, in any order and
\* with gaps, is read without failure into a dense sequence as long as the
\* largest level plus one, each count at its level and zero elsewhere.
C9_SparseLevelsTolerated ==
    (/\ bm.pc \in {"loaded", "panicked"}
     /\ bm.doc.valid
     /\ bm.doc.depths # <<>>
     /\ Cardinality(DocLevels(bm.doc)) = Len(bm.doc.depths)) =>
        /\ bm.pc = "loaded"
        /\ Len(bm.model.depths) = SetMax(DocLevels(bm.doc)) + 1
        /\ \A i \in 1..Len(bm.doc.depths) :
              bm.model.depths[bm.doc.depths[i].level + 1] = bm.doc.depths[i].count
        /\ \A l \in 1..Len(bm.model.depths) :
              (l - 1) \notin DocLevels(bm.doc) => bm.model.depths[l] = 0

\* C10: a config is returned only when check_oldest > check_youngest and both
\* are positive.
C10_OnlyPositiveOrderedWindow ==
    lc.pc = "loaded" =>
        /\ lc.res.cfg.CheckOldest > lc.res.cfg.CheckYoungest
        /\ lc.res.cfg.CheckYoungest > 0
        /\ lc.res.cfg.CheckOldest > 0


InListing(k, prefix) == k \in Range(ListBucket(v.src, prefix).Contents)

\* C1: a key sampleRandomKey returns was in the contents of a listing made
\* during its walk, and the predicate accepts it.
C1_SampledKeyAccepted ==
    \A i \in DOMAIN gr :
        (gr[i].pc = "send" /\ gr[i].err = Nil) =>
            /\ gr[i].found
            /\ accepts(gr[i].key)
            /\ \E j \in 1..Len(gr[i].listed) : InListing(gr[i].key, gr[i].listed[j])

\* C1 witness: a walk that listed the root, where "z" is rejected, and then
\* "b/", returns "b/c".
C1_Witness ==
    \E i \in DOMAIN gr :
        /\ gr[i].pc = "send"
        /\ gr[i].err = Nil
        /\ gr[i].key.Key = <<"b", "/", "c">>
        /\ Len(gr[i].listed) = 2
        /\ \E k \in Range(ListBucket(v.src, <<>>).Contents) : ~accepts(k)

\* C2: cancellation alone is not an error: a sampler whose walk saw abort
\* closed and had no listing fail returns no error, and execute, having seen
\* abort closed with no listing failed, returns nil.
C2_CancellationIsNotAnError ==
    /\ \A i \in DOMAIN gr :
          (gr[i].pc = "send" /\ gr[i].sawAbort /\ ~gr[i].listFailed) => gr[i].err = Nil
    /\ (ex.pc = "returned" /\ ex.sawAbort /\ ~ex.listFailed) => ex.ret = Nil

\* A walk has gone as deep as it is followed.
WalkCutOff ==
    \E i \in DOMAIN gr :
        gr[i].pc = "walk" /\ Head(gr[i].agenda).depth > MaxDepth

\* C5: the round loop of sampleKeysWithConstraint, once entered, eventually
\* ends (runs that panic, or whose walk is no longer followed, aside).
C5_SamplingEventuallyReturns ==
    (sk.pc = "loop") ~> (sk.pc = "returned" \/ ex.pc = "panicked" \/ WalkCutOff)

NoDuplicates(seq) == \A i, j \in 1..Len(seq) : seq[i] = seq[j] => i = j

\* C6: when sampleKeysWithConstraint returns without error and without having
\* seen abort, it returns exactly CheckCount keys, pairwise distinct, each one
\* returned by a sampler of this call.
C6_ReturnsExactlyNDistinct ==
    (sk.pc = "returned" /\ sk.err = Nil /\ ~sk.sawAbort) =>
        /\ Len(sk.keys) = v.cfg.CheckCount
        /\ NoDuplicates(sk.keys)
        /\ Range(sk.keys) \subseteq sk.produced

\* C6 witness: two keys are returned after a round that yielded one key
\* twice and had to be followed by another.
C6_Witness ==
    /\ sk.pc = "returned"
    /\ sk.err = Nil
    /\ ~sk.sawAbort
    /\ sk.rearmed
    /\ Len(sk.keys) = 2

\* C11: a mismatch is never fatal.  When the destination listing of the
\* latest verifyKey call succeeded, verifyKey returned no error, logged
\* exactly one missing-at-destination entry for 0 contents and exactly one
\* ambiguous-at-destination entry for 2 or more; it returned an error only
\* when the listing failed; and verifyKeysMatch has returned without error
\* and without abort only once every sampled key was verified.
C11_MismatchesAreNotFatal ==
    /\ vk.last # NoCheck =>
          /\ vk.last.listErr = Nil => vk.err = Nil
          /\ vk.err # Nil => vk.err = vk.last.listErr
          /\ (vk.last.listErr = Nil /\ Len(vk.last.res) = 0) =>
                vk.log = << [msg |-> MsgMissing, fields |-> {<<"key", vk.last.want.Key>>}] >>
          /\ (vk.last.listErr = Nil /\ Len(vk.last.res) >= 2) =>
                vk.log = << [msg |-> MsgAmbiguous, fields |-> {<<"key", vk.last.want.Key>>}] >>
    /\ (vk.pc = "returned" /\ vk.err = Nil /\ ~vk.sawAbort) => vk.todo = <<>>

\* C11 witness: the destination held nothing under the first of two sampled
\* keys; the mismatch is logged and the loop goes on to the second key.
C11_Witness ==
    /\ vk.pc = "loop"
    /\ vk.last # NoCheck
    /\ vk.last.listErr = Nil
    /\ vk.last.res = <<>>
    /\ Len(vk.log) = 1
    /\ vk.todo # <<>>

\* The value a log entry carries under a field name, Nil when it has none.
FieldOf(entry, name) ==
    IF \E f \in entry.fields : f[1] = name
    THEN (CHOOSE f \in entry.fields : f[1] = name)[2]
    ELSE Nil

\* C12: when the destination listing holds exactly one content, verifyKey
\* logs a field mismatch if and only if the etags or the sizes differ; the
\* entry carries the wanted and the found value of each differing field and
\* of no other; with both equal nothing is logged.
C12_FieldMismatchLogged ==
    (vk.last # NoCheck /\ vk.last.listErr = Nil /\ Len(vk.last.res) = 1) =>
        LET want  == vk.last.want
            got   == vk.last.res[1]
            etags == want.ETag # got.ETag
            sizes == want.Size # got.Size
        IN  /\ (vk.log # <<>>) <=> (etags \/ sizes)
            /\ vk.log # <<>> =>
                  /\ Len(vk.log) = 1
                  /\ vk.log[1].msg = MsgDifferent
                  /\ {f[1] : f \in vk.log[1].fields} =
                        {"key"} \cup (IF etags THEN {"want.etag", "got.etag"} ELSE {})
                                \cup (IF sizes THEN {"want.size", "got.size"} ELSE {})
                  /\ Cardinality(vk.log[1].fields) =
                        Cardinality({f[1] : f \in vk.log[1].fields})
                  /\ etags => /\ FieldOf(vk.log[1], "want.etag") = want.ETag
                              /\ FieldOf(vk.log[1], "got.etag") = got.ETag
                  /\ sizes => /\ FieldOf(vk.log[1], "want.size") = want.Size
                              /\ FieldOf(vk.log[1], "got.size") = got.Size

\* C12 witness: the single content found has the wanted etag and another
\* size; the entry logged carries the sizes and no etag.
C12_Witness ==
    /\ vk.last # NoCheck
    /\ vk.last.listErr = Nil
    /\ Len(vk.last.res) = 1
    /\ vk.last.res[1].ETag = vk.last.want.ETag
    /\ vk.last.res[1].Size # vk.last.want.Size
    /\ Len(vk.log) = 1
    /\ FieldOf(vk.log[1], "got.size") = vk.last.res[1].Size
    /\ FieldOf(vk.log[1], "got.etag") = Nil

\* C13: a failed audit iteration does not end execute: execute returns only
\* through its select on abort, with nil, and never with the error of a
\* source listing, of a sampler or of a destination listing.
C13_FailedIterationKeepsAuditing ==
    ex.pc = "returned" => (abort /\ ex.ret = Nil)

\* C14: no two sampler goroutines of a round are drawing from the same rng
\* at the same time.
C14_RngDrawsNotConcurrent ==
    \A i, j \in DOMAIN gr :
        (gr[i].pc = "rng" /\ gr[j].pc = "rng" /\ gr[i].rng = gr[j].rng) => i = j

\* C15: the predicate verifySamples builds for the audit started at `now`
\* accepts a key of the source bucket if and only if its last_modified
\* parses and lies in [now - check_oldest, now - check_youngest], both
\* bounds included.
C15_WindowBoundsIncluded ==
    ex.pc = "sampling" =>
        \A i \in 1..Len(v.src) :
            LET modtime == ParseTime(v.src[i].LastModified) IN
            accepts(v.src[i]) <=>
                /\ modtime.err = Nil
                /\ ex.now - v.cfg.CheckOldest <= modtime.t
                /\ modtime.t <= ex.now - v.cfg.CheckYoungest

\* C16: a sampleRandomKey call that found abort closed on entry returns no
\* key and has made no List call on the source bucket.
C16_AbortedBeforeWalkListsNothing ==
    \A i \in DOMAIN gr :
        (gr[i].pc = "send" /\ gr[i].abortAtEntry) =>
            /\ ~gr[i].found
            /\ gr[i].key = NoKey
            /\ gr[i].calls = 0
            /\ gr[i].listed = <<>>

\* C16 witness: such a call has returned, on a source bucket whose root
\* listing holds an accepted key.
C16_Witness ==
    \E i \in DOMAIN gr :
        /\ gr[i].pc = "send"
        /\ gr[i].abortAtEntry
        /\ abort
        /\ filterKeys(ListBucket(v.src, <<>>).Contents, acceptClosure) # <<>>

\* The predicate of the running audit accepts no key of the source bucket.
NoneAccepted == \A i \in 1..Len(v.src) : ~accepts(v.src[i])

\* C17: a sampleRandomKey call that saw neither abort nor a failed listing
\* and ended its walk without a pick returns the error NoKeySelected and no
\* key; that is how it returns whenever the bucket is empty or the predicate
\* rejects every key of it.
C17_NoPickIsNoKeySelected ==
    \A i \in DOMAIN gr :
        (gr[i].pc = "send" /\ ~gr[i].sawAbort /\ ~gr[i].listFailed) =>
            /\ ~gr[i].found => (gr[i].err = NoKeySelected /\ gr[i].key = NoKey)
            /\ NoneAccepted => (~gr[i].found /\ gr[i].err = NoKeySelected)

\* C17 witness: the predicate rejects the three keys of a two-level bucket;
\* the walk listed the root and both sub-prefixes and returned NoKeySelected.
C17_Witness ==
    \E i \in DOMAIN gr :
        /\ gr[i].pc = "send"
        /\ ~gr[i].sawAbort
        /\ gr[i].err = NoKeySelected
        /\ Len(gr[i].listed) = 3
        /\ Len(v.src) = 3
        /\ NoneAccepted

\* The keys of the source bucket the predicate of the running audit accepts.
AcceptedKeys == {v.src[i] : i \in {j \in 1..Len(v.src) : accepts(v.src[j])}}

\* No key of the source bucket begins with "/": each key is listed at the
\* walk depth that is the number of "/" in it.
PlainTree == \A i \in 1..Len(v.src) : Head(v.src[i].Key) # Slash

\* The model gives probability 1 to depth d and 0 to every depth above it.
CertainAt(d) ==
    /\ d < Len(v.model.depths)
    /\ v.model.keyCount > 0
    /\ v.model.depths[d + 1] = v.model.keyCount
    /\ \A e \in 0..(d - 1) : v.model.depths[e + 1] = 0

\* C18: when the predicate accepts exactly one key of the source tree, the
\* model gives probability 1 to its depth and 0 to the shallower depths, a
\* sampleRandomKey call that saw neither abort nor a failed listing returns
\* that key and no error, whatever the rng drew.
C18_SingleKeyIsReturned ==
    (PlainTree /\ Cardinality(AcceptedKeys) = 1) =>
        LET k == CHOOSE x \in AcceptedKeys : TRUE IN
        CertainAt(CountSlash(k.Key)) =>
            \A i \in DOMAIN gr :
                (gr[i].pc = "send" /\ ~gr[i].sawAbort /\ ~gr[i].listFailed) =>
                    /\ gr[i].found
                    /\ gr[i].key = k
                    /\ gr[i].err = Nil

\* C18 witness: "b/c" is the one accepted key of a bucket that also holds a
\* rejected key at the root and one under "y/"; with P(0) = 0 and P(1) = 1
\* the walk listed the root, "y/" and "b/" and returned "b/c".
C18_Witness ==
    \E i \in DOMAIN gr :
        /\ gr[i].pc = "send"
        /\ gr[i].err = Nil
        /\ AcceptedKeys = {gr[i].key}
        /\ gr[i].key.Key = <<"b", "/", "c">>
        /\ CertainAt(1)
        /\ Len(v.src) = 3
        /\ Len(gr[i].listed) = 3

\* C19: the sampler never returns a candidate examined at a depth to which
\* the model gives probability 0 (a depth past the end of depths, or one
\* with a zero count), whatever the rng drew.
C19_ZeroProbabilityNeverPicks ==
    \A i \in DOMAIN gr :
        gr[i].found =>
            /\ gr[i].pickedAt < Len(v.model.depths)
            /\ v.model.depths[gr[i].pickedAt + 1] # 0

\* The number of "/" in the deepest key of the source bucket.
TreeHeight == SetMax({0} \cup {CountSlash(v.src[i].Key) : i \in 1..Len(v.src)})

\* C20: one sampleRandomKey call lists no prefix of the source tree twice,
\* and its walkNode calls go no deeper than the tree, so that the call makes
\* finitely many of them.
C20_EachPrefixWalkedOnce ==
    \A i \in DOMAIN gr :
        /\ NoDuplicates(gr[i].listed)
        /\ \A c \in 1..Len(gr[i].agenda) : gr[i].agenda[c].depth <= TreeHeight

\* C21: abort is polled between any two consecutive List calls of one
\* invocation, the calls inside one listBkt call included, and no List call
\* follows a poll that saw it closed: of the List calls of one listBkt call,
\* at most one (whose poll came just before the close) is issued with abort
\* closed.
C21_AbortPolledBetweenListCalls ==
    lb.late <= 1

\* C22: the config loadConfig returns carries the document's random_seed,
\* the value execute seeds its rng with.
C22_RandomSeedLoaded ==
    lc.pc = "loaded" => lc.res.cfg.RandomSeed = lc.doc.random_seed

\* C23: the sample set of sampleKeysWithConstraint never holds more than
\* CheckCount distinct keys.
C23_SetWithinCheckCount ==
    sk.pc # "off" => Cardinality(sk.set) <= v.cfg.CheckCount

\* C24: in a sampling round every goroutine about to send finds room in its
\* channel; the values sent are one per finished goroutine; goroutines run
\* only while the collector waits, before it closes the channels; and the
\* sample set is written only once every goroutine of the round is done.
C24_RoundIsChannelSafe ==
    /\ [](/\ \A i \in DOMAIN gr :
                gr[i].pc = "send" =>
                    Len(IF gr[i].err # Nil THEN sk.errC ELSE sk.sampleC)
                        < ChanCap(v.cfg.CheckCount)
          /\ sk.pc = "wait" =>
                /\ Len(gr) = v.cfg.CheckCount
                /\ Len(sk.sampleC) + Len(sk.errC) =
                      Cardinality({i \in DOMAIN gr : gr[i].pc = "done"})
          /\ (\E i \in DOMAIN gr : gr[i].pc # "done") => sk.pc = "wait")
    /\ [][(sk'.set # sk.set /\ sk'.pc # "off") =>
             \A i \in DOMAIN gr : gr[i].pc = "done"]_vars

\* C24 witness: both goroutines of a round are done, one having sent a key
\* and the other an error, and the collector has not closed the channels yet.
C24_Witness ==
    /\ sk.pc = "wait"
    /\ Len(gr) = 2
    /\ \A i \in DOMAIN gr : gr[i].pc = "done"
    /\ Len(sk.sampleC) = 1
    /\ Len(sk.errC) = 1

\* C25: a candidate walkNode examines at recursion depth d, in particular
\* the one it picks, has exactly d "/" in its path.
C25_WalkDepthIsSlashCount ==
    \A i \in DOMAIN gr :
        gr[i].found => CountSlash(gr[i].key.Key) = gr[i].pickedAt

=============================================================================
